---------------------------- MODULE Spec2Model ----------------------------
(***************************************************************************)
(* Model of the lnbits backup extension: the poll scheduler                *)
(* (tasks.check_and_process_backups), the store operations of crud.py it   *)
(* calls, the HTTP handlers of views_api.py that touch the same tables,    *)
(* the backup executor (tasks.execute_database_backup) and the retention   *)
(* enforcer (tasks.cleanup_old_backups).                                   *)
(*                                                                         *)
(* Time.  A datetime is an integer number of clock units since the model   *)
(* epoch 2024-01-01T00:00:00Z; one second is Res units, so a datetime can  *)
(* fall between two whole seconds.  A value kept in the database is a      *)
(* whole number of seconds (crud.py stores int(dt.timestamp())).           *)
(***************************************************************************)
EXTENDS Integers, Sequences, FiniteSets, TLC

\* ------------------------------------------------------------- bounds
Res == 2            \* clock units per second
MaxTicks == 1       \* sleeps of the poll loop before the model's horizon
MaxApiCalls == 1    \* HTTP requests served during a run
MaxFaults == 1      \* database operations that raise during a run
MaxSize == 1
MaxRuns == 2        \* calls the executor harness makes
MaxLimit == 2       \* largest limit a history query asks for
MaxHistory == 3     \* history rows the API harness starts with
MaxEvicted == 1     \* ids that join the session set beyond its cap

\* ------------------------------------------------- program constants
SleepSeconds == 60          \* asyncio.sleep(60)
DefaultRetention == 7       \* retention_count: int = 7
LimitLe == 200              \* limit: int = Query(50, ge=1, le=200)
DeactivatedCap == 100       \* len(deactivated_ids) > 100

Ids == {1, 2}
None == -1                  \* Python None / SQL NULL in a numeric column
NoText == "None"            \* Python None / SQL NULL in a text column
Frequencies == {"hourly", "daily", "weekly", "monthly"}

Min(a, b) == IF a < b THEN a ELSE b

\* ------------------------------------------------------------ calendar
Day == 86400
EpochYear == 2024

IsLeap(y) == (y % 4 = 0 /\ y % 100 # 0) \/ y % 400 = 0
DaysInYear(y) == IF IsLeap(y) THEN 366 ELSE 365
DaysInMonth(y, m) ==
    IF m = 2 THEN (IF IsLeap(y) THEN 29 ELSE 28)
    ELSE IF m \in {4, 6, 9, 11} THEN 30 ELSE 31

RECURSIVE YearOfDay(_, _)
\* <<year, day of the year (0-based)>> of day d counted from 1 January of y
YearOfDay(d, y) ==
    IF d < DaysInYear(y) THEN <<y, d>> ELSE YearOfDay(d - DaysInYear(y), y + 1)

RECURSIVE MonthOfDay(_, _, _)
\* <<month, day of the month (1-based)>> of the 0-based day d of year y
MonthOfDay(d, y, m) ==
    IF d < DaysInMonth(y, m) THEN <<m, d + 1>>
    ELSE MonthOfDay(d - DaysInMonth(y, m), y, m + 1)

RECURSIVE DaysBeforeYear(_)
DaysBeforeYear(y) ==
    IF y = EpochYear THEN 0 ELSE DaysBeforeYear(y - 1) + DaysInYear(y - 1)

RECURSIVE DaysBeforeMonth(_, _)
DaysBeforeMonth(y, m) ==
    IF m = 1 THEN 0 ELSE DaysBeforeMonth(y, m - 1) + DaysInMonth(y, m - 1)

\* datetime + relativedelta(months=1): the same day of the next month, or
\* that month's last day when it is shorter; the time of day is kept.
relativedelta_months_1(dt) ==
    LET sec == dt \div Res
        sub == dt % Res
        yd  == YearOfDay(sec \div Day, EpochYear)
        md  == MonthOfDay(yd[2], yd[1], 1)
        y2  == IF md[1] = 12 THEN yd[1] + 1 ELSE yd[1]
        m2  == IF md[1] = 12 THEN 1 ELSE md[1] + 1
        d2  == Min(md[2], DaysInMonth(y2, m2))
        days == DaysBeforeYear(y2) + DaysBeforeMonth(y2, m2) + (d2 - 1)
    IN  ((days * Day) + (sec % Day)) * Res + sub

\* timedelta(hours=1), timedelta(days=1), timedelta(weeks=1), in clock units
timedelta(seconds) == seconds * Res

\* int(dt.timestamp()): the whole seconds of a datetime
timestamp(dt) == dt \div Res

\* the datetime pydantic builds from an integer column
from_timestamp(ts) == ts * Res

\* tasks.ensure_timezone_aware: a naive datetime is read as UTC; the
\* instant it names is unchanged
ensure_timezone_aware(dt) == dt


\* ------------------------------------------------------- model times
T0 == 30 * Day                  \* 2024-01-31T00:00:00Z, the first tick
Past == T0 - 300                \* five minutes before the first tick
JustExpired == T0 - 1           \* one second before the first tick
Soon == T0 + SleepSeconds       \* reached by the second tick
Far == T0 + 400 * Day           \* beyond the model's horizon
LoopOverhead == 1               \* clock units one pass of the loop body takes

\* the clock after a call: still in the same second, or a second later
ClockSteps == {1, timedelta(1)}

\* ------------------------------------------------------------- paths
\* A path is <directory>/<name><stamp><ext>: name is "lnbits_backup_" for an
\* artifact, stamp the second written into the file name as
\* YYYYMMDD_HHMMSS.  EmptyPath is the string "", NoPath is None.
Extensions == <<".sql", ".sql.gz", ".sqlite3", ".sqlite3.gz">>
Prefix == "lnbits_backup_"
Path(dir, stamp, ext) == [dir |-> dir, name |-> Prefix, stamp |-> stamp, ext |-> ext]
EmptyPath == [dir |-> "", name |-> "", stamp |-> 0, ext |-> ""]
NoPath == [dir |-> "", name |-> "", stamp |-> None, ext |-> ""]
BackupDir == "/backups"

VARIABLES
    backup_schedules,   \* table backup_schedules: id -> row
    backup_history,     \* table backup_history: sequence of rows, oldest first
    pc,                 \* where check_and_process_backups stands
    schedules,          \* the list the tick loaded
    current_time,       \* the tick's datetime.now(timezone.utc)
    idx,                \* position of the for loop in schedules
    deactivated_ids,    \* the session set of deactivated ids
    result,             \* (success, file_path, file_size) of the attempt in hand
    now,                \* the wall clock
    ticks,              \* sleeps completed
    api_calls,          \* HTTP requests served
    faults,             \* database operations that raised
    appended,           \* id -> history rows the poll loop appended this tick
    invoked,            \* id -> executor runs the poll loop started this tick
    deactivations,      \* id -> deactivations the poll loop persisted
    handled,            \* ids the for loop has been through this tick
    files,              \* the backup directories: path -> [mtime, size]
    runs,               \* calls made by the executor harness
    call,               \* the harness's last call and its arguments
    foreign_keys,       \* whether the database enforces foreign keys
    request,            \* the last request of the API harness, as answered
    previous,           \* the filtered history query it is compared with
    must_cancel,        \* the poll task has been cancelled (Task.cancel())
    loop,               \* the event loop: the task it runs and where each task stands
    joined              \* the ids that joined the session set, in that order

vars == <<backup_schedules, backup_history, pc, schedules, current_time, idx,
          deactivated_ids, result, now, ticks, api_calls, faults, appended,
          invoked, deactivations, handled, files, runs, call, foreign_keys,
          request, previous, must_cancel, loop, joined>>

engine_but_result == <<pc, schedules, current_time, idx, deactivated_ids>>
engine == <<engine_but_result, result>>
observed == <<appended, invoked, deactivations, handled>>

ZeroCount == [i \in Ids |-> 0]
\* what a call of the executor comes to: it raised, or it returned
\* (success, file_path, file_size); NoResult is (False, "", 0)
NoResult ==
    [raised |-> FALSE, success |-> FALSE, file_path |-> EmptyPath, file_size |-> 0]
RaisedResult == [NoResult EXCEPT !.raised = TRUE]
harness == <<runs, call, request, previous>>
NoCall == [op |-> "none", schedule |-> [backup_path |-> "", retention_count |-> 0,
                                        compress |-> FALSE],
           unlink_fail |-> 0, matched |-> 0, env |-> << >>]
\* a request to the API, its HTTP status and its response body
NoRequest ==
    [op |-> "none", seq |-> 0, id |-> None, limit |-> 0, http |-> 0,
     response |-> << >>]

\* the coroutines the event loop runs: the poll task and two request
\* handlers; no task has started and no request has come
Tasks == {"poll", "manual_1", "manual_2"}
NoLoop == [holder |-> "none", at |-> [t \in Tasks |-> "idle"]]

\* ------------------------------------------------ database operations
\* What a database call does: it completes, or it raises.
DbOutcomes == IF faults < MaxFaults THEN {"ok", "raise"} ELSE {"ok"}
\* create_backup_history: when it raises, it is the INSERT that raises and
\* no row is written
InsertOutcomes ==
    IF faults < MaxFaults THEN {"ok", "raise"} ELSE {"ok"}
Raised(o) == o # "ok"
CountFault(o) == IF Raised(o) THEN faults + 1 ELSE faults

\* crud.get_all_active_schedules: the active rows ordered by
\* next_backup_date; rows with equal dates come in either order.
get_all_active_schedules(db) ==
    LET act == {i \in DOMAIN db : db[i].active}
    IN  {q \in [1..Cardinality(act) -> act] :
            /\ \A i, j \in DOMAIN q : i # j => q[i] # q[j]
            /\ \A i, j \in DOMAIN q :
                 i < j => db[q[i]].next_backup_date <= db[q[j]].next_backup_date}

\* a deactivation that also clears the due date
deactivate_backup_schedule_ClearsDate(db, id) ==
    IF id \in DOMAIN db
    THEN [db EXCEPT ![id].active = FALSE, ![id].next_backup_date = None]
    ELSE db

\* crud.deactivate_backup_schedule: UPDATE ... SET active = false WHERE id
deactivate_backup_schedule(db, id) ==
    IF id \in DOMAIN db THEN [db EXCEPT ![id].active = FALSE] ELSE db

\* crud.update_next_backup_date
update_next_backup_date(db, id, next_backup_date) ==
    IF id \in DOMAIN db
    THEN [db EXCEPT ![id].next_backup_date = timestamp(next_backup_date)]
    ELSE db

\* crud.update_schedule_error
update_schedule_error(db, id, error_message, error_time) ==
    IF id \in DOMAIN db
    THEN [db EXCEPT ![id].last_error = error_message,
                    ![id].last_error_time = error_time]
    ELSE db

\* crud.update_schedule_success
update_schedule_success(db, id, success_time, backup_path, backup_size) ==
    IF id \in DOMAIN db
    THEN [db EXCEPT ![id].last_error = NoText,
                    ![id].last_error_time = None,
                    ![id].last_success_time = success_time,
                    ![id].last_backup_path = backup_path,
                    ![id].last_backup_size = backup_size]
    ELSE db

\* crud.create_backup_history: the row appended to backup_history
HistoryRow(schedule_id, status, file_path, file_size, error_message) ==
    [schedule_id |-> schedule_id, timestamp |-> timestamp(now),
     status |-> status, file_path |-> file_path, file_size |-> file_size,
     error_message |-> error_message]

create_backup_history(hist, schedule_id, status, path, size, error_message) ==
    Append(hist, HistoryRow(schedule_id, status, path, size, error_message))

\* an update that writes the whole row anew, the status columns NULL
update_backup_schedule_ClearsStatus(db, data) ==
    IF data.id \in DOMAIN db
    THEN [db EXCEPT ![data.id].frequency_type = data.frequency_type,
                    ![data.id].start_datetime = timestamp(data.start_datetime),
                    ![data.id].next_backup_date = timestamp(data.next_backup_date),
                    ![data.id].active = data.active,
                    ![data.id].end_datetime =
                        IF data.end_datetime = None THEN None
                        ELSE timestamp(data.end_datetime),
                    ![data.id].last_error = NoText,
                    ![data.id].last_error_time = None,
                    ![data.id].last_success_time = None,
                    ![data.id].last_backup_path = NoPath,
                    ![data.id].last_backup_size = None]
    ELSE db

\* crud.update_backup_schedule: every column a request carries is written;
\* the status columns are not part of the statement.
update_backup_schedule(db, data) ==
    IF data.id \in DOMAIN db
    THEN [db EXCEPT ![data.id].frequency_type = data.frequency_type,
                    ![data.id].start_datetime = timestamp(data.start_datetime),
                    ![data.id].next_backup_date = timestamp(data.next_backup_date),
                    ![data.id].active = data.active,
                    ![data.id].end_datetime =
                        IF data.end_datetime = None THEN None
                        ELSE timestamp(data.end_datetime)]
    ELSE db

\* crud.delete_backup_schedule
delete_backup_schedule(db, id) == [i \in DOMAIN db \ {id} |-> db[i]]

\* ON DELETE CASCADE of backup_history.schedule_id
RECURSIVE cascade_delete(_, _)
cascade_delete(hist, id) ==
    IF hist = << >> THEN << >>
    ELSE IF Head(hist).schedule_id = id THEN cascade_delete(Tail(hist), id)
    ELSE <<Head(hist)>> \o cascade_delete(Tail(hist), id)


\* ------------------------------------------------------ file system
EmptyFs == [p \in {} |-> 0]
write_file(fs, p, mtime, size) ==
    [q \in DOMAIN fs \cup {p} |->
        IF q = p THEN [mtime |-> mtime, size |-> size] ELSE fs[q]]
unlink(fs, p) == [q \in DOMAIN fs \ {p} |-> fs[q]]

\* sizes in bytes of a dump of n KiB and of its gzip
raw_size(n) == n * 1024
gzip_size(n) == n * 256 + 18

\* -------------------------------------------------- retention enforcer
ExtRank(ext) == CHOOSE i \in DOMAIN Extensions : Extensions[i] = ext

\* tasks.cleanup_old_backups, lines 139-143: backup_dir.glob of
\* lnbits_backup_*<ext> for the four extensions
glob_backups(fs, dir) ==
    {p \in DOMAIN fs :
        /\ p.dir = dir
        /\ p.name = Prefix
        /\ \E i \in DOMAIN Extensions : p.ext = Extensions[i]}

\* line 146: the matches sorted by modification time, newest first.  The
\* sort is stable: files of equal mtime stay in the order the globs gave,
\* which is the order of the extensions and, within one extension, the
\* order the directory listing happens to have.
RECURSIVE sort_newest_first(_, _)
sort_newest_first(fs, all) ==
    IF all = {} THEN {<< >>}
    ELSE LET firsts == {p \in all : \A q \in all :
                           \/ fs[p].mtime > fs[q].mtime
                           \/ /\ fs[p].mtime = fs[q].mtime
                              /\ ExtRank(p.ext) <= ExtRank(q.ext)}
         IN  UNION {{<<p>> \o rest : rest \in sort_newest_first(fs, all \ {p})} :
                        p \in firsts}
sorted_backups(fs, dir) == sort_newest_first(fs, glob_backups(fs, dir))

\* Python's seq[k:]
slice_from(seq, k) ==
    LET n == Len(seq)
        from == IF k >= 0 THEN Min(k, n) ELSE (IF n + k > 0 THEN n + k ELSE 0)
    IN  SubSeq(seq, from + 1, n)

\* lines 151-153: unlink one file after the other; the unlink that raises
\* ends the loop (line 160 logs it)
RECURSIVE unlink_each(_, _, _, _)
unlink_each(fs, seq, nth, fail_at) ==
    IF seq = << >> \/ nth = fail_at THEN fs
    ELSE unlink_each(unlink(fs, Head(seq)), Tail(seq), nth + 1, fail_at)

\* the slice one place too far: retention_count + 1 files are kept
backups_to_delete_OneTooMany(all_backups, retention_count) ==
    IF Len(all_backups) > retention_count
    THEN slice_from(all_backups, retention_count + 1)
    ELSE << >>

\* lines 149-150: the files to delete
backups_to_delete(all_backups, retention_count) ==
    IF Len(all_backups) > retention_count
    THEN slice_from(all_backups, retention_count)
    ELSE << >>

\* tasks.cleanup_old_backups: the directories it can leave behind.  env
\* says which unlink raises (unlink_fail, 0 for none).  It never raises.
cleanup_old_backups(schedule, fs, dir, env) ==
    {unlink_each(fs, backups_to_delete(q, schedule.retention_count), 1,
                 env.unlink_fail) : q \in sorted_backups(fs, dir)}

\* ------------------------------------------------------- the executor
\* What surrounds one run of the executor:
\*   settings_ok  the import of lnbits.settings works
\*   mkdir_ok     the backup directory exists or can be created
\*   db_url       settings.lnbits_database_url ("" when it is unset)
\*   pg_dump      "ok", "exit" (non-zero exit, the output file may have
\*                been started), "missing" (no such program)
\*   source       the SQLite file exists
\*   source_mtime its modification time
\*   vacuum_ok    VACUUM INTO works (it never does onto an existing file)
\*   copy_ok      shutil.copy2 works
\*   gzip_ok      the compression works (when not, what was written of the
\*                .gz file stays)
\*   unlink_ok    the uncompressed file can be removed
\*   stat_ok      the size of the artifact can be read
\*   unlink_fail  which unlink of the retention enforcer raises (0: none)
\*   kib          the size of the dump in KiB
DbUrls == {"postgres://lnbits@db/lnbits", "sqlite:///data/database.sqlite3", ""}
IsPostgres(db_url) == db_url = "postgres://lnbits@db/lnbits"

OkEnv(db_url, kib) ==
    [settings_ok |-> TRUE, mkdir_ok |-> TRUE, db_url |-> db_url, pg_dump |-> "ok",
     source |-> TRUE, source_mtime |-> 0, vacuum_ok |-> TRUE, copy_ok |-> TRUE,
     gzip_ok |-> TRUE, unlink_ok |-> TRUE, stat_ok |-> TRUE, unlink_fail |-> 0,
     kib |-> kib]

\* the dump without the fallback of lines 98-102: when VACUUM INTO fails
\* the dump fails
dump_database_NoFallback(schedule, fs, env, at) ==
    LET dir == schedule.backup_path
        stamp == timestamp(at)
    IN  IF IsPostgres(env.db_url)
        THEN LET f == Path(dir, stamp, ".sql") IN
             CASE env.pg_dump = "ok" ->
                    [ok |-> TRUE, file |-> f,
                     fs |-> write_file(fs, f, at, raw_size(env.kib))]
               [] env.pg_dump = "exit" ->
                    [ok |-> FALSE, file |-> f, fs |-> write_file(fs, f, at, 0)]
               [] OTHER -> [ok |-> FALSE, file |-> f, fs |-> fs]
        ELSE LET f == Path(dir, stamp, ".sqlite3") IN
             IF ~env.source THEN [ok |-> FALSE, file |-> f, fs |-> fs]
             ELSE IF env.vacuum_ok /\ f \notin DOMAIN fs
             THEN [ok |-> TRUE, file |-> f,
                   fs |-> write_file(fs, f, at, raw_size(env.kib))]
             ELSE [ok |-> FALSE, file |-> f, fs |-> fs]

\* lines 43-102: the dump.  [ok, fs, file]: whether it worked, the
\* directory afterwards, the file written.
dump_database(schedule, fs, env, at) ==
    LET dir == schedule.backup_path
        stamp == timestamp(at)
    IN  IF IsPostgres(env.db_url)
        THEN LET f == Path(dir, stamp, ".sql") IN
             CASE env.pg_dump = "ok" ->
                    [ok |-> TRUE, file |-> f,
                     fs |-> write_file(fs, f, at, raw_size(env.kib))]
               [] env.pg_dump = "exit" ->
                    [ok |-> FALSE, file |-> f, fs |-> write_file(fs, f, at, 0)]
               [] OTHER -> [ok |-> FALSE, file |-> f, fs |-> fs]
        ELSE LET f == Path(dir, stamp, ".sqlite3") IN
             IF ~env.source THEN [ok |-> FALSE, file |-> f, fs |-> fs]
             ELSE IF env.vacuum_ok /\ f \notin DOMAIN fs
             THEN [ok |-> TRUE, file |-> f,
                   fs |-> write_file(fs, f, at, raw_size(env.kib))]
             ELSE IF env.copy_ok
             THEN [ok |-> TRUE, file |-> f,
                   fs |-> write_file(fs, f, env.source_mtime, raw_size(env.kib))]
             ELSE [ok |-> FALSE, file |-> f, fs |-> fs]

\* the compression that leaves the uncompressed file where it is
compress_backup_KeepsOriginal(schedule, fs, env, at, backup_file) ==
    IF ~schedule.compress THEN [ok |-> TRUE, file |-> backup_file, fs |-> fs]
    ELSE LET gz == [backup_file EXCEPT !.ext = @ \o ".gz"] IN
         IF ~env.gzip_ok
         THEN [ok |-> FALSE, file |-> gz, fs |-> write_file(fs, gz, at, 0)]
         ELSE [ok |-> TRUE, file |-> gz,
               fs |-> write_file(fs, gz, at, gzip_size(env.kib))]

\* lines 105-116: the compression.  [ok, fs, file]
compress_backup(schedule, fs, env, at, backup_file) ==
    IF ~schedule.compress THEN [ok |-> TRUE, file |-> backup_file, fs |-> fs]
    ELSE LET gz == [backup_file EXCEPT !.ext = @ \o ".gz"] IN
         IF ~env.gzip_ok
         THEN [ok |-> FALSE, file |-> gz, fs |-> write_file(fs, gz, at, 0)]
         ELSE LET written == write_file(fs, gz, at, gzip_size(env.kib)) IN
              IF ~env.unlink_ok
              THEN [ok |-> FALSE, file |-> gz, fs |-> written]
              ELSE [ok |-> TRUE, file |-> gz, fs |-> unlink(written, backup_file)]

\* the executor without the try/except of lines 28 and 129-132: what goes
\* wrong inside reaches the caller
execute_database_backup_Unguarded(schedule, fs, env, at) ==
    LET failed(f) == {[result |-> RaisedResult, fs |-> f]}
    IN  IF ~env.settings_ok \/ ~env.mkdir_ok THEN failed(fs)
        ELSE LET d == dump_database(schedule, fs, env, at) IN
             IF ~d.ok THEN failed(d.fs)
             ELSE LET c == compress_backup(schedule, d.fs, env, at, d.file) IN
                  IF ~c.ok \/ ~env.stat_ok THEN failed(c.fs)
                  ELSE {[result |-> [raised |-> FALSE, success |-> TRUE,
                                     file_path |-> c.file,
                                     file_size |-> c.fs[c.file].size],
                         fs |-> f2] :
                            f2 \in cleanup_old_backups(schedule, c.fs,
                                                       schedule.backup_path, env)}

\* tasks.execute_database_backup: the outcomes of one run at time at, each
\* the value returned (or that it raised) and the directory afterwards
execute_database_backup(schedule, fs, env, at) ==
    LET failed(f) == {[result |-> NoResult, fs |-> f]}
    IN  IF ~env.settings_ok \/ ~env.mkdir_ok THEN failed(fs)
        ELSE LET d == dump_database(schedule, fs, env, at) IN
             IF ~d.ok THEN failed(d.fs)
             ELSE LET c == compress_backup(schedule, d.fs, env, at, d.file) IN
                  IF ~c.ok \/ ~env.stat_ok THEN failed(c.fs)
                  ELSE {[result |-> [raised |-> FALSE, success |-> TRUE,
                                     file_path |-> c.file,
                                     file_size |-> c.fs[c.file].size],
                         fs |-> f2] :
                            f2 \in cleanup_old_backups(schedule, c.fs,
                                                       schedule.backup_path, env)}

\* the surroundings the poll loop's runs are given: a working SQLite
\* backup, or no source file
PollEnvs ==
    {OkEnv("sqlite:///data/database.sqlite3", 1),
     [OkEnv("sqlite:///data/database.sqlite3", 1) EXCEPT !.source = FALSE]}

\* ------------------------------------------------------ the poll loop
\* tasks.check_and_process_backups, lines 274-290: the next due date
advance_next_backup_date(schedule, at) ==
    CASE schedule.frequency_type = "hourly"  -> at + timedelta(3600)
      [] schedule.frequency_type = "daily"   -> at + timedelta(Day)
      [] schedule.frequency_type = "weekly"  -> at + timedelta(7 * Day)
      [] schedule.frequency_type = "monthly" -> relativedelta_months_1(at)
      [] OTHER -> from_timestamp(schedule.next_backup_date)

\* the sets that are left of ids when any n of them are taken away
RECURSIVE Drop(_, _)
Drop(ids, n) == IF n = 0 THEN {ids} ELSE UNION {Drop(ids \ {x}, n - 1) : x \in ids}

\* lines 330-332: set(list(deactivated_ids)[-100:]), the session set cut
\* back to DeactivatedCap ids; a set has no order, so which ids stay is not
\* determined.
TrimChoices(ids) ==
    IF Cardinality(ids) > DeactivatedCap
    THEN Drop(ids, Cardinality(ids) - DeactivatedCap)
    ELSE {ids}

\* the loop body without its start_datetime check (lines 202-213)
Decision_StartIgnored(schedule, at, skip_ids) ==
    IF schedule.id \in skip_ids THEN "skip"
    ELSE IF /\ schedule.end_datetime # None
            /\ at > ensure_timezone_aware(from_timestamp(schedule.end_datetime))
    THEN "deactivate"
    ELSE IF at >= ensure_timezone_aware(from_timestamp(schedule.next_backup_date))
    THEN "backup"
    ELSE "skip"

\* the loop body without its end_datetime check (lines 215-222)
Decision_ExpiryIgnored(schedule, at, skip_ids) ==
    IF schedule.id \in skip_ids THEN "skip"
    ELSE IF at < ensure_timezone_aware(from_timestamp(schedule.start_datetime))
    THEN "skip"
    ELSE IF at >= ensure_timezone_aware(from_timestamp(schedule.next_backup_date))
    THEN "backup"
    ELSE "skip"

\* lines 196-233: what the loop body decides for one loaded schedule
Decision(schedule, at, skip_ids) ==
    IF schedule.id \in skip_ids THEN "skip"
    ELSE IF at < ensure_timezone_aware(from_timestamp(schedule.start_datetime))
    THEN "skip"
    ELSE IF /\ schedule.end_datetime # None
            /\ at > ensure_timezone_aware(from_timestamp(schedule.end_datetime))
    THEN "deactivate"
    ELSE IF at >= ensure_timezone_aware(from_timestamp(schedule.next_backup_date))
    THEN "backup"
    ELSE "skip"

Current == schedules[idx]
InLoop == idx <= Len(schedules)
\* the loop body is over for this schedule; its locals are dead
NextSchedule ==
    /\ idx' = idx + 1
    /\ handled' = handled \cup {Current.id}
    /\ result' = NoResult
    /\ pc' = "evaluate"

\* asyncio.sleep(60) returns and the loop starts over
PollSleep ==
    /\ pc = "sleep"
    /\ ticks < MaxTicks
    /\ now' = now + timedelta(SleepSeconds) + LoopOverhead
    /\ ticks' = ticks + 1
    /\ pc' = "fetch"
    /\ UNCHANGED <<backup_schedules, backup_history, schedules, current_time,
                   idx, deactivated_ids, result, api_calls, faults, observed>>
    /\ UNCHANGED <<files, harness, foreign_keys, must_cancel, loop, joined>>

\* the load without the tick-level handler of line 327: the exception ends
\* the task
PollFetch_Terminates ==
    /\ pc = "fetch"
    /\ \E o \in DbOutcomes :
         /\ faults' = CountFault(o)
         /\ IF Raised(o)
            THEN /\ pc' = "stopped"
                 /\ UNCHANGED <<schedules, current_time, idx, deactivated_ids,
                                observed>>
            ELSE /\ \E q \in get_all_active_schedules(backup_schedules) :
                        schedules' = [i \in DOMAIN q |-> backup_schedules[q[i]]]
                 /\ current_time' = now
                 /\ idx' = 1
                 /\ pc' = "evaluate"
                 /\ appended' = ZeroCount
                 /\ invoked' = ZeroCount
                 /\ handled' = {}
                 /\ UNCHANGED <<deactivated_ids, deactivations>>
    /\ UNCHANGED <<backup_schedules, backup_history, result, now, ticks, api_calls>>
    /\ UNCHANGED <<files, harness, foreign_keys, must_cancel, loop, joined>>

\* lines 184-186: load the active schedules and take the tick's time; when
\* the query raises, line 327 logs it and the loop goes to sleep
PollFetch ==
    /\ pc = "fetch"
    /\ \E o \in DbOutcomes :
         /\ faults' = CountFault(o)
         /\ IF Raised(o)
            THEN /\ \E keep \in TrimChoices(deactivated_ids) :
                        deactivated_ids' = keep
                 /\ pc' = "sleep"
                 /\ UNCHANGED <<schedules, current_time, idx, observed>>
            ELSE /\ \E q \in get_all_active_schedules(backup_schedules) :
                        schedules' = [i \in DOMAIN q |-> backup_schedules[q[i]]]
                 /\ current_time' = now
                 /\ idx' = 1
                 /\ pc' = "evaluate"
                 /\ appended' = ZeroCount
                 /\ invoked' = ZeroCount
                 /\ handled' = {}
                 /\ UNCHANGED <<deactivated_ids, deactivations>>
    /\ UNCHANGED <<backup_schedules, backup_history, result, now, ticks, api_calls>>
    /\ UNCHANGED <<files, harness, foreign_keys, must_cancel, loop, joined>>

\* lines 189-240: the loop body up to its first database call.  A due
\* schedule's executor run is part of this step: the executor does no
\* database call and yields to no other task.
PollEvaluate ==
    /\ pc = "evaluate"
    /\ InLoop
    /\ LET d == Decision(Current, current_time, deactivated_ids) IN
         CASE d = "skip" ->
                /\ NextSchedule
                /\ UNCHANGED <<invoked, files>>
           [] d = "deactivate" ->
                /\ pc' = "deactivate"
                /\ UNCHANGED <<idx, handled, result, invoked, files>>
           [] d = "backup" ->
                /\ \E env \in PollEnvs :
                     \E out \in execute_database_backup(Current, files, env, now) :
                        /\ result' = out.result
                        /\ files' = out.fs
                        /\ pc' = IF out.result.raised THEN "handler" ELSE "history"
                /\ invoked' = [invoked EXCEPT ![Current.id] = @ + 1]
                /\ UNCHANGED <<idx, handled>>
    /\ UNCHANGED <<backup_schedules, backup_history, schedules, current_time,
                   deactivated_ids, now, ticks, api_calls, faults, appended,
                   deactivations, harness, foreign_keys, must_cancel, loop, joined>>

\* lines 330-335: the for loop is over; trim the session set and sleep
PollEndTick ==
    /\ pc = "evaluate"
    /\ ~InLoop
    /\ \E keep \in TrimChoices(deactivated_ids) : deactivated_ids' = keep
    /\ pc' = "sleep"
    /\ UNCHANGED <<backup_schedules, backup_history, schedules, current_time,
                   idx, result, now, ticks, api_calls, faults, observed>>
    /\ UNCHANGED <<files, harness, foreign_keys, must_cancel, loop, joined>>

\* the deactivation without the per-schedule handler of line 318: the
\* exception leaves the for loop and the tick-level handler ends the tick
PollDeactivate_Escapes ==
    /\ pc = "deactivate"
    /\ \E o \in DbOutcomes :
         /\ faults' = CountFault(o)
         /\ IF Raised(o)
            THEN /\ pc' = "sleep"
                 /\ UNCHANGED <<backup_schedules, deactivated_ids, deactivations,
                                idx, handled, result>>
            ELSE /\ backup_schedules' =
                        deactivate_backup_schedule(backup_schedules, Current.id)
                 /\ deactivated_ids' = deactivated_ids \cup {Current.id}
                 /\ deactivations' = [deactivations EXCEPT ![Current.id] = @ + 1]
                 /\ NextSchedule
    /\ UNCHANGED <<backup_history, schedules, current_time, now, ticks,
                   api_calls, appended, invoked>>
    /\ UNCHANGED <<files, harness, foreign_keys, must_cancel, loop, joined>>

\* lines 220-222: deactivate the expired schedule and remember its id; when
\* the call raises, line 318 logs it and the loop goes on
PollDeactivate ==
    /\ pc = "deactivate"
    /\ \E o \in DbOutcomes :
         /\ faults' = CountFault(o)
         /\ IF Raised(o)
            THEN UNCHANGED <<backup_schedules, deactivated_ids, deactivations>>
            ELSE /\ backup_schedules' =
                        deactivate_backup_schedule(backup_schedules, Current.id)
                 /\ deactivated_ids' = deactivated_ids \cup {Current.id}
                 /\ deactivations' = [deactivations EXCEPT ![Current.id] = @ + 1]
    /\ NextSchedule
    /\ UNCHANGED <<backup_history, schedules, current_time, now, ticks,
                   api_calls, appended, invoked>>
    /\ UNCHANGED <<files, harness, foreign_keys, must_cancel, loop, joined>>


\* backup_history.schedule_id REFERENCES backup_schedules(id): where the
\* database enforces the reference, an INSERT for a schedule that is gone
\* raises
InsertOutcomesFor(schedule_id) ==
    IF schedule_id \in DOMAIN backup_schedules \/ foreign_keys = "off"
    THEN InsertOutcomes
    ELSE {"raise"}
Inserted(o) == o = "ok"

\* lines 243-249 and 260-264: record the attempt in the history
PollRecordHistory ==
    /\ pc = "history"
    /\ \E o \in InsertOutcomesFor(Current.id) :
         /\ faults' = CountFault(o)
         /\ IF Inserted(o)
            THEN /\ backup_history' =
                      IF result.success
                      THEN create_backup_history(backup_history, Current.id,
                               "success", result.file_path, result.file_size,
                               NoText)
                      ELSE create_backup_history(backup_history, Current.id,
                               "error", NoPath, None, "Backup execution failed")
                 /\ appended' = [appended EXCEPT ![Current.id] = @ + 1]
            ELSE UNCHANGED <<backup_history, appended>>
         /\ pc' = IF Raised(o) THEN "handler" ELSE "status"
    /\ UNCHANGED <<backup_schedules, schedules, current_time, idx,
                   deactivated_ids, result, now, ticks, api_calls, invoked,
                   deactivations, handled>>
    /\ UNCHANGED <<files, harness, foreign_keys, must_cancel, loop, joined>>

\* lines 250-255 and 265-269: write the outcome to the schedule's row
PollUpdateStatus ==
    /\ pc = "status"
    /\ \E o \in DbOutcomes :
         /\ faults' = CountFault(o)
         /\ IF Raised(o)
            THEN /\ pc' = "handler"
                 /\ UNCHANGED backup_schedules
            ELSE /\ pc' = "next_date"
                 /\ backup_schedules' =
                      IF result.success
                      THEN update_schedule_success(backup_schedules, Current.id,
                               timestamp(now), result.file_path, result.file_size)
                      ELSE update_schedule_error(backup_schedules, Current.id,
                               "Backup execution failed", timestamp(now))
    /\ UNCHANGED <<backup_history, schedules, current_time, idx, deactivated_ids,
                   result, now, ticks, api_calls, observed>>
    /\ UNCHANGED <<files, harness, foreign_keys, must_cancel, loop, joined>>

\* lines 274-295: compute the next due date from the tick's time and store it
PollUpdateNextDate ==
    /\ pc = "next_date"
    /\ \E o \in DbOutcomes :
         /\ faults' = CountFault(o)
         /\ IF Raised(o)
            THEN /\ pc' = "handler"
                 /\ UNCHANGED <<backup_schedules, idx, handled, result>>
            ELSE /\ backup_schedules' =
                      update_next_backup_date(backup_schedules, Current.id,
                          advance_next_backup_date(Current, current_time))
                 /\ NextSchedule
    /\ UNCHANGED <<backup_history, schedules, current_time, deactivated_ids,
                   now, ticks, api_calls, appended, invoked, deactivations>>
    /\ UNCHANGED <<files, harness, foreign_keys, must_cancel, loop, joined>>

\* lines 308-316: a call of the attempt raised; log it and record an error
\* row.  When this INSERT raises too, line 318 logs it and the loop goes on.
PollHandleException ==
    /\ pc = "handler"
    /\ \E o \in InsertOutcomesFor(Current.id) :
         /\ faults' = CountFault(o)
         /\ IF Inserted(o)
            THEN /\ backup_history' =
                      create_backup_history(backup_history, Current.id, "error",
                                            NoPath, None, "database error")
                 /\ appended' = [appended EXCEPT ![Current.id] = @ + 1]
            ELSE UNCHANGED <<backup_history, appended>>
    /\ NextSchedule
    /\ UNCHANGED <<backup_schedules, schedules, current_time, deactivated_ids,
                   now, ticks, api_calls, invoked, deactivations>>
    /\ UNCHANGED <<files, harness, foreign_keys, must_cancel, loop, joined>>

Poll == \/ PollSleep \/ PollFetch \/ PollEvaluate \/ PollEndTick
        \/ PollDeactivate \/ PollRecordHistory \/ PollUpdateStatus
        \/ PollUpdateNextDate \/ PollHandleException

\* ---------------------------------------------------- HTTP handlers
\* The poll task yields to other tasks only while it waits for a database
\* call or sleeps: a request handler runs at those points.
AwaitPoints == {"sleep", "fetch", "deactivate", "history", "status",
                "next_date", "handler"}

\* the requests the model sends to PUT /api/v1/schedules/{id}: the stored
\* schedule switched off, switched on with end_datetime cleared, or given
\* a frequency that is none of the four
UpdateRequests(id) ==
    LET row == backup_schedules[id]
        end == IF row.end_datetime = None THEN None
               ELSE from_timestamp(row.end_datetime)
    IN  {[id |-> id, frequency_type |-> f,
          start_datetime |-> from_timestamp(row.start_datetime),
          next_backup_date |-> from_timestamp(row.next_backup_date),
          active |-> a, end_datetime |-> e] :
            <<f, a, e>> \in {<<row.frequency_type, FALSE, end>>,
                              <<row.frequency_type, TRUE, None>>,
                              <<"yearly", row.active, end>>}}

\* views_api.api_update_schedule
ApiUpdateSchedule ==
    /\ pc \in AwaitPoints
    /\ api_calls < MaxApiCalls
    /\ \E id \in DOMAIN backup_schedules : \E data \in UpdateRequests(id) :
         backup_schedules' = update_backup_schedule(backup_schedules, data)
    /\ api_calls' = api_calls + 1
    /\ UNCHANGED <<backup_history, engine, now, ticks, faults, observed>>
    /\ UNCHANGED <<files, harness, foreign_keys, must_cancel, loop, joined>>

\* The schema declares ON DELETE CASCADE (migrations.py line 51) and
\* crud.delete_backup_schedule deletes the schedule's row only.  PostgreSQL
\* enforces the reference; SQLite does when the connection has set PRAGMA
\* foreign_keys = ON, which no statement of this extension does.  Which of
\* the two the database does shows at the first DELETE and stays.
ForeignKeyModes ==
    IF foreign_keys = "unobserved" THEN {"on", "off"} ELSE {foreign_keys}

\* views_api.api_delete_schedule
ApiDeleteSchedule ==
    /\ pc \in AwaitPoints
    /\ api_calls < MaxApiCalls
    /\ \E id \in DOMAIN backup_schedules : \E mode \in ForeignKeyModes :
         /\ backup_schedules' = delete_backup_schedule(backup_schedules, id)
         /\ backup_history' = IF mode = "on"
                              THEN cascade_delete(backup_history, id)
                              ELSE backup_history
         /\ foreign_keys' = mode
    /\ api_calls' = api_calls + 1
    /\ UNCHANGED <<engine, now, ticks, faults, observed>>
    /\ UNCHANGED <<files, harness, must_cancel, loop, joined>>

Api == ApiUpdateSchedule \/ ApiDeleteSchedule

\* crud.get_backup_schedule: Optional[BackupSchedule] as a sequence, the
\* row alone or nothing for None
get_backup_schedule(db, id) == IF id \in DOMAIN db THEN <<db[id]>> ELSE << >>

\* crud.create_backup_schedule: the datetimes are stored as timestamps and
\* the status columns are left NULL
create_backup_schedule(db, id, data) ==
    [i \in DOMAIN db \cup {id} |->
        IF i # id THEN db[i]
        ELSE [id |-> id, frequency_type |-> data.frequency_type,
              start_datetime |-> timestamp(data.start_datetime),
              next_backup_date |-> timestamp(data.next_backup_date),
              end_datetime |-> IF data.end_datetime = None THEN None
                               ELSE timestamp(data.end_datetime),
              active |-> data.active,
              last_error |-> NoText, last_error_time |-> None,
              last_success_time |-> None, last_backup_path |-> NoPath,
              last_backup_size |-> None, backup_path |-> data.backup_path,
              retention_count |-> data.retention_count,
              compress |-> data.compress]]

\* views_api.validate_backup_path: an empty path is refused, and so is one
\* that is no directory, cannot be written to or cannot be created
validate_backup_path(backup_path, usable) == backup_path # "" /\ usable

\* the bodies the model sends to POST /api/v1/schedules
CreateRequests ==
    {[frequency_type |-> f, backup_path |-> p,
      start_datetime |-> from_timestamp(Past),
      next_backup_date |-> from_timestamp(Past),
      end_datetime |-> e, active |-> TRUE,
      retention_count |-> DefaultRetention, compress |-> TRUE] :
        f \in {"weekly", "yearly"}, p \in {BackupDir, ""},
        e \in {None, from_timestamp(Far)}}

\* the next request of the API harness as answered.  Of a history query
\* with a schedule's id and the query without one and with the same limit
\* that follows it, the first is kept.
Answer(op, id, limit, http, response) ==
    LET seq == IF op = "history" THEN api_calls ELSE api_calls + 1 IN
    /\ request' = [op |-> op, seq |-> seq, id |-> id, limit |-> limit,
                   http |-> http, response |-> response]
    /\ previous' = IF /\ op = "history" /\ id = None /\ http = 200
                      /\ request.op = "history" /\ request.id # None
                      /\ request.http = 200 /\ request.limit = limit
                      /\ request.seq = seq
                   THEN request ELSE NoRequest

\* views_api.api_create_schedule; urlsafe_short_hash() gives an id no
\* stored schedule has
ApiCreateSchedule ==
    /\ pc \in AwaitPoints
    /\ api_calls < MaxApiCalls
    /\ \E data \in CreateRequests : \E usable \in BOOLEAN :
         IF data.frequency_type \notin Frequencies
            \/ ~validate_backup_path(data.backup_path, usable)
         THEN /\ Answer("create", None, 0, 400, << >>)
              /\ UNCHANGED backup_schedules
         ELSE \E id \in Ids \ DOMAIN backup_schedules :
                 /\ backup_schedules' = create_backup_schedule(backup_schedules, id, data)
                 /\ Answer("create", id, 0, 201, << >>)
    /\ api_calls' = api_calls + 1
    /\ UNCHANGED <<backup_history, engine, now, ticks, faults, observed>>
    /\ UNCHANGED <<files, runs, call, foreign_keys, must_cancel, loop, joined>>

\* views_api.api_manual_backup: the schedule is looked up and the executor
\* is run on it; the answer is 200 with the artifact's path and size, or
\* 500.  The executor blocks, so nothing else runs until it has returned.
ApiManualBackup_Advances ==
    /\ pc \in AwaitPoints
    /\ api_calls < MaxApiCalls
    /\ \E id \in Ids :
         LET schedule == get_backup_schedule(backup_schedules, id) IN
         IF schedule = << >>
         THEN /\ Answer("manual", id, 0, 404, << >>)
              /\ UNCHANGED <<files, now, backup_schedules>>
         ELSE \E env \in PollEnvs :
              \E out \in execute_database_backup(schedule[1], files, env, now) :
                 /\ files' = out.fs
                 /\ Answer("manual", id, 0,
                           IF out.result.success THEN 200 ELSE 500,
                           <<out.result>>)
                 /\ \E d \in ClockSteps : now' = now + d
                 /\ backup_schedules' =
                        update_next_backup_date(backup_schedules, id, now + timedelta(3600))
    /\ api_calls' = api_calls + 1
    /\ UNCHANGED <<backup_history, engine, ticks, faults, observed>>
    /\ UNCHANGED <<runs, call, foreign_keys, must_cancel, loop, joined>>

ApiManualBackup ==
    /\ pc \in AwaitPoints
    /\ api_calls < MaxApiCalls
    /\ \E id \in Ids :
         LET schedule == get_backup_schedule(backup_schedules, id) IN
         IF schedule = << >>
         THEN /\ Answer("manual", id, 0, 404, << >>)
              /\ UNCHANGED <<files, now>>
         ELSE \E env \in PollEnvs :
              \E out \in execute_database_backup(schedule[1], files, env, now) :
                 /\ files' = out.fs
                 /\ Answer("manual", id, 0,
                           IF out.result.success THEN 200 ELSE 500,
                           <<out.result>>)
                 /\ \E d \in ClockSteps : now' = now + d
    /\ api_calls' = api_calls + 1
    /\ UNCHANGED <<backup_schedules, backup_history, engine, ticks, faults, observed>>
    /\ UNCHANGED <<runs, call, foreign_keys, must_cancel, loop, joined>>

\* crud.get_backup_history: SELECT ... [WHERE schedule_id = :schedule_id]
\* ORDER BY timestamp DESC LIMIT :limit.  A row's id is its position in
\* the table; rows with equal timestamps come in either order, so the
\* result is one of a set of sequences.
get_backup_history_Ascending(hist, schedule_id, limit) ==
    LET rows == {i \in DOMAIN hist :
                    schedule_id = None \/ hist[i].schedule_id = schedule_id}
        n == Min(limit, Cardinality(rows))
        picks == {q \in [1..n -> rows] :
                    /\ \A i, j \in 1..n : i # j => q[i] # q[j]
                    /\ \A i, j \in 1..n :
                         i < j => hist[q[i]].timestamp <= hist[q[j]].timestamp
                    /\ \A r \in rows : (\A i \in 1..n : q[i] # r) =>
                         \A i \in 1..n : hist[q[i]].timestamp <= hist[r].timestamp}
    IN  {[i \in 1..n |-> [id |-> q[i], row |-> hist[q[i]]]] : q \in picks}

get_backup_history(hist, schedule_id, limit) ==
    LET rows == {i \in DOMAIN hist :
                    schedule_id = None \/ hist[i].schedule_id = schedule_id}
        n == Min(limit, Cardinality(rows))
        picks == {q \in [1..n -> rows] :
                    /\ \A i, j \in 1..n : i # j => q[i] # q[j]
                    /\ \A i, j \in 1..n :
                         i < j => hist[q[i]].timestamp >= hist[q[j]].timestamp
                    /\ \A r \in rows : (\A i \in 1..n : q[i] # r) =>
                         \A i \in 1..n : hist[q[i]].timestamp >= hist[r].timestamp}
    IN  {[i \in 1..n |-> [id |-> q[i], row |-> hist[q[i]]]] : q \in picks}

\* the limits the model asks for: FastAPI answers 422 to one outside 1..200
Limits == 0..MaxLimit

\* views_api.api_get_history; it changes nothing, and the model does not
\* count it among the calls it bounds
ApiGetHistory ==
    /\ pc \in AwaitPoints
    /\ \E schedule_id \in Ids \cup {None} : \E limit \in Limits :
         IF limit < 1 \/ limit > LimitLe
         THEN Answer("history", schedule_id, limit, 422, << >>)
         ELSE IF schedule_id # None
                 /\ get_backup_schedule(backup_schedules, schedule_id) = << >>
         THEN Answer("history", schedule_id, limit, 404, << >>)
         ELSE \E history \in get_backup_history(backup_history, schedule_id, limit) :
                 Answer("history", schedule_id, limit, 200, history)
    /\ UNCHANGED <<backup_schedules, backup_history, engine, now, ticks, faults, observed>>
    /\ UNCHANGED api_calls
    /\ UNCHANGED <<files, runs, call, foreign_keys, must_cancel, loop, joined>>

\* ------------------------------------------------------ initial state
\* The rows the model starts from: created by POST /api/v1/schedules, never
\* run, so every status column is NULL.  Schedule 1 is hourly or monthly,
\* started or not, with or without an end; schedule 2 is a weekly one
\* without an end or a daily one whose end has just passed.
InitialRows(id) ==
    {[id |-> id, frequency_type |-> x[1], start_datetime |-> x[2],
      next_backup_date |-> Past, end_datetime |-> x[3], active |-> TRUE,
      last_error |-> NoText, last_error_time |-> None,
      last_success_time |-> None, last_backup_path |-> NoPath,
      last_backup_size |-> None, backup_path |-> BackupDir,
      retention_count |-> DefaultRetention, compress |-> TRUE] :
        x \in (IF id = 1
               THEN {"hourly", "monthly"} \X {Past, Soon} \X {None, JustExpired}
               ELSE {<<"weekly", Past, None>>, <<"daily", Past, JustExpired>>})}

Init ==
    /\ backup_schedules \in {db \in [Ids -> UNION {InitialRows(i) : i \in Ids}] :
                                \A i \in Ids : db[i] \in InitialRows(i)}
    /\ backup_history = << >>
    /\ pc = "fetch"
    /\ schedules = << >>
    /\ current_time = T0 * Res
    /\ idx = 1
    /\ deactivated_ids = {}
    /\ result = NoResult
    /\ now = T0 * Res
    /\ ticks = 0
    /\ api_calls = 0
    /\ faults = 0
    /\ appended = ZeroCount
    /\ invoked = ZeroCount
    /\ deactivations = ZeroCount
    /\ handled = {}
    /\ files = EmptyFs
    /\ runs = 0
    /\ call = NoCall
    /\ foreign_keys = "unobserved"
    /\ request = NoRequest
    /\ previous = NoRequest
    /\ must_cancel = FALSE
    /\ loop = NoLoop
    /\ joined = << >>

Next == Poll \/ Api

Spec == Init /\ [][Next]_vars


\* A specification of the poll task under the fairness asyncio gives it: a
\* task whose awaited call has completed is resumed.
FairSpec == Spec /\ WF_vars(Poll)

\* -------------------------------------------------------- cancellation
\* __init__.backup_stop: task.cancel() on the poll task.  It is called from
\* the event loop, which is free only while the task is suspended at an
\* await; the executor does not yield, so no run is under way then.
backup_stop ==
    /\ pc \in AwaitPoints
    /\ ~must_cancel
    /\ must_cancel' = TRUE
    /\ UNCHANGED <<backup_schedules, backup_history, engine, now, ticks,
                   api_calls, faults, observed, files, harness, foreign_keys, loop, joined>>

\* The cancelled task's next step: CancelledError is raised at the await
\* the task is suspended at.  It is no Exception, so none of the loop's
\* three except clauses (tasks.py lines 308, 318, 327) catches it and the
\* coroutine ends.  The awaited call is taken not to have been done.
CancelledError_Swallowed ==
    /\ must_cancel
    /\ pc \in AwaitPoints
    /\ pc' = IF pc \in {"history", "status", "next_date"} THEN "handler" ELSE "sleep"
    /\ must_cancel' = FALSE
    /\ UNCHANGED <<backup_schedules, backup_history, schedules, current_time,
                   idx, deactivated_ids, result, now, ticks, api_calls, faults,
                   observed, files, harness, foreign_keys, loop, joined>>

CancelledError ==
    /\ must_cancel
    /\ pc \in AwaitPoints
    /\ pc' = "stopped"
    /\ UNCHANGED <<backup_schedules, backup_history, schedules, current_time,
                   idx, deactivated_ids, result, now, ticks, api_calls, faults,
                   observed, files, harness, foreign_keys, must_cancel, loop, joined>>

\* a step of the poll task: it runs on, or it is cancelled
Task == (~must_cancel /\ Poll) \/ CancelledError

NextCancel == Task \/ backup_stop

SpecCancel == Init /\ [][NextCancel]_vars

\* ------------------------------------------------- executor harness
\* The executor and the retention enforcer on their own: a schedule and a
\* backup directory are given, the two functions are called on them, and
\* the clock moves between the calls.
NotesFile == [dir |-> BackupDir, name |-> "notes_", stamp |-> 0, ext |-> ".txt"]

\* the files the directory may hold to begin with: four artifacts, two of
\* them with one modification time, and a file that is no artifact
OldFiles ==
    [p \in {Path(BackupDir, T0 - 4, ".sql"), Path(BackupDir, T0 - 3, ".sql.gz"),
            Path(BackupDir, T0 - 3, ".sqlite3.gz"), Path(BackupDir, T0 - 1, ".sqlite3"),
            NotesFile} |->
        [mtime |-> from_timestamp(p.stamp), size |-> raw_size(1)]]

RetentionCounts == {-1, 0, 1, 3}
HarnessSchedules ==
    {[backup_path |-> BackupDir, retention_count |-> k, compress |-> c] :
        k \in RetentionCounts, c \in BOOLEAN}

\* the surroundings of a run: all is well, or one thing goes wrong
HarnessEnvs ==
    UNION {
        LET pg == OkEnv("postgres://lnbits@db/lnbits", z)
            lite == OkEnv("sqlite:///data/database.sqlite3", z)
            unset == OkEnv("", z)
        IN  {pg, lite, unset,
             [pg EXCEPT !.settings_ok = FALSE],
             [pg EXCEPT !.mkdir_ok = FALSE],
             [pg EXCEPT !.pg_dump = "exit"],
             [pg EXCEPT !.pg_dump = "missing"],
             [pg EXCEPT !.gzip_ok = FALSE],
             [pg EXCEPT !.unlink_ok = FALSE],
             [pg EXCEPT !.stat_ok = FALSE],
             [pg EXCEPT !.unlink_fail = 1],
             [pg EXCEPT !.unlink_fail = 2],
             [lite EXCEPT !.source = FALSE],
             [unset EXCEPT !.source = FALSE],
             [lite EXCEPT !.vacuum_ok = FALSE,
                          !.source_mtime = from_timestamp(T0 - 2)],
             [lite EXCEPT !.vacuum_ok = FALSE, !.copy_ok = FALSE],
             [lite EXCEPT !.gzip_ok = FALSE]}
        : z \in 1..MaxSize}

poll_frame == <<backup_schedules, backup_history, engine_but_result, ticks,
                api_calls, faults, observed, foreign_keys, request, previous,
                must_cancel, loop, joined>>

\* one call of execute_database_backup
HarnessExecute ==
    /\ runs < MaxRuns
    /\ \E env \in HarnessEnvs :
         \E out \in execute_database_backup(call.schedule, files, env, now) :
            /\ result' = out.result
            /\ files' = out.fs
            /\ call' = [call EXCEPT !.op = "execute",
                                    !.unlink_fail = env.unlink_fail,
                                    !.matched = Cardinality(
                                        glob_backups(files, call.schedule.backup_path))]
    /\ runs' = runs + 1
    /\ \E d \in ClockSteps : now' = now + d
    /\ UNCHANGED poll_frame

\* one call of cleanup_old_backups
HarnessCleanup ==
    /\ runs < MaxRuns
    /\ \E unlink_fail \in 0..2 :
         /\ files' \in cleanup_old_backups(call.schedule, files,
                          call.schedule.backup_path,
                          [unlink_fail |-> unlink_fail])
         /\ call' = [call EXCEPT !.op = "cleanup",
                                 !.unlink_fail = unlink_fail,
                                 !.matched = Cardinality(
                                     glob_backups(files, call.schedule.backup_path))]
    /\ runs' = runs + 1
    /\ \E d \in ClockSteps : now' = now + d
    /\ UNCHANGED <<result, poll_frame>>

\* no schedule is stored and the poll task does not run
InitHarness ==
    /\ backup_schedules = [i \in {} |-> 0]
    /\ backup_history = << >>
    /\ pc = "stopped"
    /\ schedules = << >>
    /\ current_time = T0 * Res
    /\ idx = 1
    /\ deactivated_ids = {}
    /\ result = NoResult
    /\ now = T0 * Res
    /\ ticks = 0
    /\ api_calls = 0
    /\ faults = 0
    /\ appended = ZeroCount
    /\ invoked = ZeroCount
    /\ deactivations = ZeroCount
    /\ handled = {}
    /\ runs = 0
    /\ foreign_keys = "unobserved"
    /\ request = NoRequest
    /\ previous = NoRequest
    /\ must_cancel = FALSE
    /\ loop = NoLoop
    /\ joined = << >>

InitExec ==
    /\ InitHarness
    /\ \E present \in SUBSET DOMAIN OldFiles :
            files = [p \in present |-> OldFiles[p]]
    /\ \E schedule \in HarnessSchedules : call = [NoCall EXCEPT !.schedule = schedule]

NextExec == HarnessExecute \/ HarnessCleanup

SpecExec == InitExec /\ [][NextExec]_vars

\* ------------------------------------------------ shared directory
\* Schedules that share one backup_path: each call of the executor is for
\* any of the schedules, in an empty directory to begin with.
HarnessExecuteShared ==
    /\ runs < MaxRuns
    /\ \E schedule \in HarnessSchedules : \E env \in PollEnvs :
         \E out \in execute_database_backup(schedule, files, env, now) :
            /\ result' = out.result
            /\ files' = out.fs
            /\ call' = [call EXCEPT !.op = "execute",
                                    !.schedule = schedule,
                                    !.unlink_fail = env.unlink_fail,
                                    !.matched = Cardinality(
                                        glob_backups(files, schedule.backup_path))]
    /\ runs' = runs + 1
    /\ \E d \in ClockSteps : now' = now + d
    /\ UNCHANGED poll_frame

InitShared == InitExec /\ files = EmptyFs

NextShared == HarnessExecuteShared

SpecShared == InitShared /\ [][NextShared]_vars

\* ------------------------------------------------ embedded database
\* Runs of the executor against the SQLite file, in surroundings where any
\* of the steps may fail together: the source file, VACUUM INTO, the file
\* copy, the compression, the removal of the uncompressed file, the stat.
EmbeddedEnvs ==
    {[OkEnv(u, z) EXCEPT !.source = s, !.vacuum_ok = v, !.copy_ok = c,
                         !.gzip_ok = g, !.unlink_ok = r, !.stat_ok = t,
                         !.source_mtime = from_timestamp(T0 - 2)] :
        u \in {"sqlite:///data/database.sqlite3", ""}, z \in 1..MaxSize,
        s \in BOOLEAN, v \in BOOLEAN, c \in BOOLEAN, g \in BOOLEAN,
        r \in BOOLEAN, t \in BOOLEAN}

\* one call of execute_database_backup in the surroundings of the behaviour
HarnessExecuteEmbedded ==
    /\ runs < MaxRuns
    /\ \E out \in execute_database_backup(call.schedule, files, call.env, now) :
         /\ result' = out.result
         /\ files' = out.fs
         /\ call' = [call EXCEPT !.op = "execute",
                                 !.matched = Cardinality(
                                     glob_backups(files, call.schedule.backup_path))]
    /\ runs' = runs + 1
    /\ \E d \in ClockSteps : now' = now + d
    /\ UNCHANGED poll_frame

InitEmbedded ==
    /\ InitHarness
    /\ files \in {EmptyFs, OldFiles}
    /\ \E schedule \in HarnessSchedules : \E env \in EmbeddedEnvs :
            call = [NoCall EXCEPT !.schedule = schedule, !.env = env]

NextEmbedded == HarnessExecuteEmbedded

SpecEmbedded == InitEmbedded /\ [][NextEmbedded]_vars

\* -------------------------------------------------------- session set
\* The session set over many ticks: schedule after schedule expires and is
\* deactivated, and its id joins the set; joined keeps the order, which the
\* set does not.  The ids are numbered as they join.
\* lines 220-222: a tick has deactivated one more schedule
SessionAdd ==
    /\ pc = "evaluate"
    /\ Len(joined) < DeactivatedCap + MaxEvicted
    /\ deactivated_ids' = deactivated_ids \cup {Len(joined) + 1}
    /\ joined' = Append(joined, Len(joined) + 1)
    /\ UNCHANGED <<backup_schedules, backup_history, pc, schedules, current_time,
                   idx, result, now, ticks, api_calls, faults, observed, files,
                   harness, foreign_keys, must_cancel, loop>>

\* lines 330-335: the for loop is over; trim the set and sleep
SessionEndTick ==
    /\ pc = "evaluate"
    /\ \E keep \in TrimChoices(deactivated_ids) : deactivated_ids' = keep
    /\ pc' = "sleep"
    /\ UNCHANGED <<backup_schedules, backup_history, schedules, current_time,
                   idx, result, now, ticks, api_calls, faults, observed, files,
                   harness, foreign_keys, must_cancel, loop, joined>>

\* the task starts, or asyncio.sleep(60) returns, and a tick loads its list
SessionTick ==
    /\ pc \in {"stopped", "sleep"}
    /\ pc' = "evaluate"
    /\ UNCHANGED <<backup_schedules, backup_history, schedules, current_time,
                   idx, deactivated_ids, result, now, ticks, api_calls, faults,
                   observed, files, harness, foreign_keys, must_cancel, loop,
                   joined>>

InitSession == InitHarness /\ files = EmptyFs /\ call = NoCall

NextSession == SessionAdd \/ SessionEndTick \/ SessionTick

SpecSession == InitSession /\ [][NextSession]_vars

\* ---------------------------------------------------------- event loop
\* The coroutines step by step, as asyncio runs them on the one event loop
\* of the process: the task that holds the loop runs until it is suspended
\* in an await of something that is not done; only then does the loop
\* resume another task.  loop.at is the statement each task stands at,
\* loop.holder the task that runs.  The steps of the executor (lines 28-132):
\*   dump       settings, mkdir, subprocess.run(pg_dump) or sqlite3 and copy2
\*   compress   gzip and unlink
\*   stat       backup_file.stat()
\*   retention  await cleanup_old_backups(...)
ExecutorSteps == {"dump", "compress", "stat", "retention"}

\* an executor that awaits its dump (an asyncio subprocess)
Suspended_AsyncDump(at) == at \in AwaitPoints \cup {"lookup", "idle", "dump"}

\* The statements a task is suspended at: the database calls and the sleep
\* of the poll loop, the lookup of the handler, and a task that has not
\* started.  No step of the executor is one: subprocess.run, sqlite3, shutil
\* and gzip block, and cleanup_old_backups is a coroutine without an await,
\* so awaiting it runs it through.
Suspended(at) == at \in AwaitPoints \cup {"lookup", "idle"}

\* execute_database_backup from one step to the next; any step but the
\* retention can raise, and the except clause of line 129 returns
ExecutorSuccessors(at, return_to) ==
    CASE at = "dump" -> {"compress", "stat", return_to}
      [] at = "compress" -> {"stat", return_to}
      [] at = "stat" -> {"retention", return_to}
      [] at = "retention" -> {return_to}

\* check_and_process_backups from one statement to the next
PollSuccessors(at) ==
    CASE at = "idle" -> {"fetch"}
      [] at = "fetch" -> {"evaluate", "sleep"}
      [] at = "evaluate" -> {"evaluate", "deactivate", "dump", "sleep"}
      [] at = "deactivate" -> {"evaluate"}
      [] at \in ExecutorSteps -> ExecutorSuccessors(at, "history")
      [] at = "history" -> {"status", "handler"}
      [] at = "status" -> {"next_date", "handler"}
      [] at = "next_date" -> {"evaluate", "handler"}
      [] at = "handler" -> {"evaluate"}
      [] at = "sleep" -> {"fetch"}

\* api_manual_backup from one statement to the next: the lookup, 404 or
\* 403 or the executor, the response
HandlerSuccessors(at) ==
    CASE at = "idle" -> {"lookup"}
      [] at = "lookup" -> {"idle", "dump"}
      [] at \in ExecutorSteps -> ExecutorSuccessors(at, "idle")

\* the event loop lets task t make a step: t runs, or no task runs and
\* what t waits for is done
Runnable(t) ==
    \/ loop.holder = t
    \/ loop.holder = "none" /\ Suspended(loop.at[t])

\* task t goes on to the statement next; a call of the executor is counted
Goes(t, next) ==
    /\ loop' = [holder |-> IF Suspended(next) THEN "none" ELSE t,
                at |-> [loop.at EXCEPT ![t] = next]]
    /\ IF next = "dump"
       THEN runs < MaxRuns /\ runs' = runs + 1
       ELSE runs' = runs

\* a step of the poll task.  The list a tick loads has up to one entry for
\* each schedule; idx counts the entries the for loop has taken up.
PollTaskStep ==
    /\ Runnable("poll")
    /\ \E next \in PollSuccessors(loop.at["poll"]) :
         /\ Goes("poll", next)
         /\ (loop.at["poll"] = "evaluate" /\ next # "sleep") => idx <= Cardinality(Ids)
         /\ idx' = IF next # "evaluate" THEN idx
                   ELSE IF loop.at["poll"] = "fetch" THEN 1
                   ELSE idx + 1
         /\ IF loop.at["poll"] = "sleep"
            THEN ticks < MaxTicks /\ ticks' = ticks + 1
            ELSE ticks' = ticks
    /\ UNCHANGED <<backup_schedules, backup_history, pc, schedules, current_time,
                   deactivated_ids, result, now, api_calls, faults, observed,
                   files, call, request, previous, foreign_keys, must_cancel, joined>>

\* a step of a request handler
HandlerStep ==
    /\ \E t \in Tasks \ {"poll"} :
         /\ Runnable(t)
         /\ \E next \in HandlerSuccessors(loop.at[t]) : Goes(t, next)
    /\ UNCHANGED <<backup_schedules, backup_history, engine, now, ticks,
                   api_calls, faults, observed, files, call, request, previous,
                   foreign_keys, must_cancel, joined>>

InitLoop == InitHarness /\ files = EmptyFs /\ call = NoCall

NextLoop == PollTaskStep \/ HandlerStep

SpecLoop == InitLoop /\ [][NextLoop]_vars

\* ------------------------------------------------------ API harness
\* The request handlers on their own, while the poll task sleeps: a store
\* of schedules and a history are given and requests are answered one
\* after the other.
\* A history row of a successful run at second ts
SeedRow(id, ts) ==
    [schedule_id |-> id, timestamp |-> ts, status |-> "success",
     file_path |-> Path(BackupDir, ts, ".sqlite3.gz"),
     file_size |-> gzip_size(1), error_message |-> NoText]

\* the histories the harness starts with: up to MaxHistory rows of the
\* stored schedules, written in the two seconds before T0, the rows in the
\* order they were written
SeedHistories(ids) ==
    LET rows == {SeedRow(id, ts) : id \in ids, ts \in {T0 - 2, T0 - 1}}
    IN  UNION {{h \in [1..n -> rows] :
                    \A i, j \in 1..n : i < j => h[i].timestamp <= h[j].timestamp}
               : n \in 0..MaxHistory}

\* the schedules the harness starts with: started, without an end
SeedSchedules(id) ==
    {row \in InitialRows(id) :
        row.start_datetime = Past /\ row.end_datetime = None}

InitApi ==
    /\ \E ids \in SUBSET Ids :
         /\ backup_schedules \in {db \in [ids -> UNION {SeedSchedules(i) : i \in Ids}] :
                                     \A i \in ids : db[i] \in SeedSchedules(i)}
         /\ backup_history \in SeedHistories(ids)
    /\ pc = "sleep"
    /\ schedules = << >>
    /\ current_time = T0 * Res
    /\ idx = 1
    /\ deactivated_ids = {}
    /\ result = NoResult
    /\ now = T0 * Res
    /\ ticks = 0
    /\ api_calls = 0
    /\ faults = 0
    /\ appended = ZeroCount
    /\ invoked = ZeroCount
    /\ deactivations = ZeroCount
    /\ handled = {}
    /\ files = EmptyFs
    /\ runs = 0
    /\ call = NoCall
    /\ foreign_keys = "unobserved"
    /\ request = NoRequest
    /\ previous = NoRequest
    /\ must_cancel = FALSE
    /\ loop = NoLoop
    /\ joined = << >>

NextApi == Api \/ ApiCreateSchedule \/ ApiManualBackup

SpecApi == InitApi /\ [][NextApi]_vars

\* The poll task and every handler that writes, on a store whose schedules
\* have run before: schedule 1 is hourly and as the engine left it after a
\* successful or a failed attempt, schedule 2 is as created, without an
\* end or with one that has just passed.
StatusRows(id) ==
    IF id # 1 THEN {row \in InitialRows(id) : row.start_datetime = Past}
    ELSE UNION {{[row EXCEPT !.last_success_time = T0 - 2,
                             !.last_backup_path = Path(BackupDir, T0 - 2, ".sqlite3.gz"),
                             !.last_backup_size = gzip_size(1)],
                 [row EXCEPT !.last_error = "Backup execution failed",
                             !.last_error_time = T0 - 2]} :
                    row \in {r \in SeedSchedules(id) : r.frequency_type = "hourly"}}

InitStore ==
    /\ \E ids \in SUBSET Ids :
         backup_schedules \in {db \in [ids -> UNION {StatusRows(i) : i \in Ids}] :
                                  \A i \in ids : db[i] \in StatusRows(i)}
    /\ backup_history = << >>
    /\ pc = "fetch"
    /\ schedules = << >>
    /\ current_time = T0 * Res
    /\ idx = 1
    /\ deactivated_ids = {}
    /\ result = NoResult
    /\ now = T0 * Res
    /\ ticks = 0
    /\ api_calls = 0
    /\ faults = 0
    /\ appended = ZeroCount
    /\ invoked = ZeroCount
    /\ deactivations = ZeroCount
    /\ handled = {}
    /\ files = EmptyFs
    /\ runs = 0
    /\ call = NoCall
    /\ foreign_keys = "unobserved"
    /\ request = NoRequest
    /\ previous = NoRequest
    /\ must_cancel = FALSE
    /\ loop = NoLoop
    /\ joined = << >>

NextStore == Poll \/ Api \/ ApiCreateSchedule \/ ApiManualBackup

SpecStore == InitStore /\ [][NextStore]_vars

\* The history query on its own: it is asked of the store as given, any
\* number of times.
NextHistory == ApiGetHistory

SpecHistory == InitApi /\ [][NextHistory]_vars

\* ------------------------------------------------------------ claims
\* positions of the loaded list the for loop is through in the current tick
Handled == {i \in DOMAIN schedules : i < idx}

\* due at the tick: loaded as active, start_datetime reached, not expired,
\* current_time >= next_backup_date
Due(schedule) == Decision(schedule, current_time, {}) = "backup"

\* loaded as active with end_datetime set and earlier than the tick's time
Expired(schedule) ==
    /\ schedule.end_datetime # None
    /\ current_time > from_timestamp(schedule.end_datetime)

NotStarted(schedule) == current_time < from_timestamp(schedule.start_datetime)

Stored(id) == id \in DOMAIN backup_schedules

\* C1: for every schedule that is due in a poll tick, exactly one history
\* row for it is appended during that tick, whatever the executor returns
\* and whichever store write raises afterwards (the schedule still exists).
C1_ExactlyOneHistoryRow ==
    \A i \in Handled :
        (Due(schedules[i]) /\ Stored(schedules[i].id))
            => appended[schedules[i].id] = 1

\* C2: after a tick attempted a schedule, its stored next_backup_date is
\* the tick's current time plus the frequency offset (to the second),
\* whether the attempt succeeded, failed or raised during write-back.
C2_NextDateAdvanced ==
    \A i \in Handled :
        (invoked[schedules[i].id] > 0 /\ Stored(schedules[i].id))
            => backup_schedules[schedules[i].id].next_backup_date
                 = timestamp(advance_next_backup_date(schedules[i], current_time))

\* C3: the poll loop never invokes the executor for a schedule whose stored
\* active flag is false at the moment of the invocation.
C3_NeverRunsInactive ==
    [][\A id \in Ids :
          (invoked'[id] > invoked[id] /\ Stored(id))
              => backup_schedules[id].active]_vars


\* the history rows of one schedule, oldest first
RECURSIVE history_of(_, _)
history_of(hist, id) ==
    IF hist = << >> THEN << >>
    ELSE IF Head(hist).schedule_id = id
         THEN <<Head(hist)>> \o history_of(Tail(hist), id)
         ELSE history_of(Tail(hist), id)

\* a step of the poll task (a request handler counts its call)
PollStep == api_calls' = api_calls

\* C4: for every schedule of the tick's list with current_time <
\* start_datetime, no step of the tick invokes the executor for it, appends
\* a history row for it or changes its stored row.
C4_NotStartedUntouched ==
    [][PollStep =>
        \A i \in DOMAIN schedules :
            NotStarted(schedules[i]) =>
                LET id == schedules[i].id IN
                /\ invoked'[id] <= invoked[id]
                /\ appended'[id] <= appended[id]
                /\ history_of(backup_history', id) = history_of(backup_history, id)
                /\ Stored(id) =>
                     /\ id \in DOMAIN backup_schedules'
                     /\ backup_schedules'[id] = backup_schedules[id]]_vars

\* C4 witness: the loop is through a schedule that has not started, and its
\* stored row is the row the tick loaded
C4_Witness ==
    \E i \in Handled :
        /\ NotStarted(schedules[i])
        /\ Due([schedules[i] EXCEPT !.start_datetime = Past])
        /\ Stored(schedules[i].id)
        /\ backup_schedules[schedules[i].id] = schedules[i]
        /\ invoked[schedules[i].id] = 0

C6_ReactivatedIsAttempted ==
    \A i \in Handled : Due(schedules[i]) => invoked[schedules[i].id] = 1

\* C7: when a call made for one schedule raises, the loop goes on with that
\* schedule's exception handler or with the next schedule of the list, and
\* a tick ends only when the loop is through every schedule it loaded.
C7_RaiseDoesNotAbortTick ==
    /\ [](pc \in {"sleep", "fetch"} => Handled = DOMAIN schedules)
    /\ [][(faults' > faults /\ pc # "fetch") =>
            /\ schedules' = schedules
            /\ \/ pc' = "handler" /\ idx' = idx /\ pc # "handler"
               \/ pc' = "evaluate" /\ idx' = idx + 1
                    /\ pc \in {"handler", "deactivate"}]_vars

\* C7 witness: the tick is over; a call for its first schedule raised and
\* the second schedule was run all the same
C7_Witness ==
    /\ pc = "sleep"
    /\ Len(schedules) = 2
    /\ faults > 0
    /\ \E k \in DOMAIN backup_history :
          /\ backup_history[k].schedule_id = schedules[1].id
          /\ backup_history[k].error_message = "database error"
          /\ backup_history[k].timestamp = timestamp(current_time)
    /\ invoked[schedules[2].id] = 1
    /\ appended[schedules[2].id] = 1

Matching(fs) == glob_backups(fs, call.schedule.backup_path)

\* C9: the executor never raises to its caller: a run in which something
\* fails (settings, directory, dump tool, source file, copy, compression,
\* size lookup) returns (False, "", 0), and every other run returns
\* (True, path, size) with a non-empty path, the size of the file there.
C9_ExecutorNeverRaises ==
    [][(call'.op = "execute" /\ runs' = runs + 1) =>
        /\ ~result'.raised
        /\ \/ result' = NoResult
           \/ /\ result'.success
              /\ result'.file_path # EmptyPath
              /\ result'.file_path.dir = call.schedule.backup_path
              /\ result'.file_size > 0
              /\ result'.file_path \in DOMAIN files'
                    => files'[result'.file_path].size = result'.file_size]_vars

\* C9 witness: one run has failed and returned (False, "", 0), leaving the
\* file a failed step wrote, and the run after it has succeeded
C9_Witness ==
    /\ runs = 2
    /\ call.op = "execute"
    /\ result.success
    /\ result.file_path \in DOMAIN files
    /\ \E p \in DOMAIN files : p.name = Prefix /\ files[p].size = 0

C19_NoHistoryOfDeleted ==
    \A id \in Ids \ DOMAIN backup_schedules :
        history_of(backup_history, id) = << >>

\* the step that ends the attempt a tick made for the schedule in hand
EndsAttempt ==
    /\ PollStep
    /\ pc \in {"history", "status", "next_date", "handler"}
    /\ idx' = idx + 1

\* C14: after a poll-driven attempt whose executor result is success the
\* stored last_error and last_error_time are null and last_backup_path and
\* last_backup_size are the path and size the executor returned; after one
\* whose result is failure last_error and last_error_time are set and
\* last_success_time, last_backup_path and last_backup_size are as before.
C14_StatusFollowsResult ==
    [][(EndsAttempt /\ Current.id \in DOMAIN backup_schedules') =>
        LET row == backup_schedules'[Current.id] IN
        IF result.success
        THEN /\ row.last_error = NoText
             /\ row.last_error_time = None
             /\ row.last_backup_path = result.file_path
             /\ row.last_backup_size = result.file_size
        ELSE /\ row.last_error # NoText
             /\ row.last_error_time # None
             /\ row.last_success_time = Current.last_success_time
             /\ row.last_backup_path = Current.last_backup_path
             /\ row.last_backup_size = Current.last_backup_size]_vars

\* C15: whenever the poll loop has appended a history row with status error
\* for a schedule, at the end of that tick the schedule's last_error and
\* last_error_time are set and are those of that attempt.
C15_ErrorRowSetsLastError ==
    pc = "sleep" =>
        \A id \in handled \cap DOMAIN backup_schedules :
            (/\ appended[id] > 0
             /\ \E k \in DOMAIN backup_history :
                   /\ backup_history[k].schedule_id = id
                   /\ backup_history[k].status = "error"
                   /\ backup_history[k].timestamp = timestamp(current_time))
                => /\ backup_schedules[id].last_error # NoText
                   /\ backup_schedules[id].last_error_time = timestamp(current_time)

\* C16: the engine changes a stored active flag only from true to false and
\* only when the schedule's end_datetime is set and the tick's time is past
\* it; it never sets active to true.
C16_ActiveFalseOnlyOnExpiry ==
    [][PollStep =>
        \A id \in DOMAIN backup_schedules \cap DOMAIN backup_schedules' :
            backup_schedules'[id].active # backup_schedules[id].active =>
                /\ backup_schedules[id].active
                /\ ~backup_schedules'[id].active
                /\ backup_schedules[id].end_datetime # None
                /\ current_time > from_timestamp(backup_schedules[id].end_datetime)]_vars

\* C13: two runs of the executor for one schedule write to distinct file
\* names, also when both start within one clock second: a run that
\* succeeds right after a run that succeeded returns another path.
C13_DistinctFilenames ==
    [][(/\ call.op = "execute" /\ result.success
        /\ call'.op = "execute" /\ runs' = runs + 1 /\ result'.success) =>
            result'.file_path # result.file_path]_vars


\* C17: a create or update request whose frequency is not one of hourly,
\* daily, weekly, monthly is rejected and leaves the store unchanged, so
\* every stored schedule's frequency is one of the four.
C17_FrequencyValid ==
    \A id \in DOMAIN backup_schedules :
        backup_schedules[id].frequency_type \in Frequencies

\* a step in which POST /api/v1/backup/manual has run the executor
ManualRun ==
    /\ api_calls' # api_calls
    /\ request' # request
    /\ request'.op = "manual"
    /\ request'.http # 404

\* C11: a manual backup of a schedule changes neither the stored
\* next_backup_date nor the stored active flag of that schedule, whether
\* the executor succeeds or fails.
C11_ManualLeavesSchedule ==
    [][ManualRun =>
          /\ Stored(request'.id)
          /\ request'.id \in DOMAIN backup_schedules'
          /\ backup_schedules'[request'.id].next_backup_date =
                backup_schedules[request'.id].next_backup_date
          /\ backup_schedules'[request'.id].active =
                backup_schedules[request'.id].active]_vars

\* C11 witness: a manual backup of a due schedule succeeded and left its
\* artifact; the schedule is still due.
C11_Witness ==
    /\ request.op = "manual" /\ request.http = 200
    /\ request.response[1].file_path \in DOMAIN files
    /\ Stored(request.id)
    /\ backup_schedules[request.id].active
    /\ from_timestamp(backup_schedules[request.id].next_backup_date) <= now

\* C12: every manual backup attempt appends exactly one history row for
\* its schedule, with status success or error as the executor returned.
C12_ManualAppendsHistory ==
    [][ManualRun =>
          LET before == history_of(backup_history, request'.id)
              after == history_of(backup_history', request'.id)
          IN  /\ Len(after) = Len(before) + 1
              /\ after[Len(after)].status =
                    (IF request'.response[1].success THEN "success" ELSE "error")]_vars

\* u holds every record of f
Superset(u, f) == \A i \in DOMAIN f : \E k \in DOMAIN u : u[k].id = f[i].id
Position(u, id) == CHOOSE k \in DOMAIN u : u[k].id = id
\* the records of f come in u in the order they have in f
SameOrder(u, f) ==
    \A i, j \in DOMAIN f :
        i < j => Position(u, f[i].id) < Position(u, f[j].id)
\* the same for the records of f with different timestamps
SameOrderOfTimes(u, f) ==
    \A i, j \in DOMAIN f :
        (i < j /\ f[i].row.timestamp # f[j].row.timestamp) =>
            Position(u, f[i].id) < Position(u, f[j].id)
Descending(q) ==
    \A i, j \in DOMAIN q : i < j => q[i].row.timestamp >= q[j].row.timestamp

\* the history was asked for with a schedule's id and then, with the same
\* limit, without one, and no request has changed the store since
QueryPair ==
    /\ request.seq = api_calls
    /\ previous.op = "history" /\ previous.http = 200 /\ previous.id # None
    /\ request.op = "history" /\ request.http = 200 /\ request.id = None
    /\ request.seq = previous.seq
    /\ request.limit = previous.limit

\* C18 as claimed: for every schedule id s and every limit, the result of
\* the history query without a filter holds every record of the result of
\* the query filtered on s with the same limit, in the same relative order.
C18_UnfilteredContainsFiltered ==
    QueryPair =>
        /\ Superset(request.response, previous.response)
        /\ SameOrder(request.response, previous.response)

\* C18 amended: for every schedule id s and every limit that is not smaller
\* than the number of stored history rows, the result of the query without
\* a filter holds every record of the result of the query filtered on s;
\* both results are in descending order of timestamp, and records of
\* different timestamps come in the same relative order in both.
C18_ContainsFilteredWhenNotCut ==
    (QueryPair /\ Len(backup_history) <= request.limit) =>
        /\ Superset(request.response, previous.response)
        /\ SameOrderOfTimes(request.response, previous.response)
        /\ Descending(request.response)
        /\ Descending(previous.response)

\* C18 witness: two rows of different schedules and times are stored; the
\* query filtered on one schedule returned one of them and the query
\* without a filter, with limit 2, both.
C18_Witness ==
    /\ QueryPair
    /\ request.limit = 2
    /\ Len(backup_history) = 2
    /\ Len(previous.response) = 1
    /\ Len(request.response) = 2
    /\ request.response[1].row.timestamp > request.response[2].row.timestamp

\* C20: once the poll task has been cancelled it starts no executor run,
\* writes no file and lets no time pass before it stops, and it stays
\* stopped; a run of the executor is never cut short, because the task
\* cannot be cancelled between the start and the end of a run.
C20_CancelledTaskStops ==
    [][must_cancel =>
          /\ invoked' = invoked
          /\ files' = files
          /\ now' = now
          /\ must_cancel'
          /\ pc' = pc \/ pc' = "stopped"
          /\ pc = "stopped" => pc' = "stopped"]_vars

\* C20 witness: the task was cancelled while it awaited the history insert
\* that follows a successful run; it has stopped and the run's artifact is
\* in place.
C20_Witness ==
    /\ must_cancel
    /\ pc = "stopped"
    /\ result.success
    /\ result.file_path \in DOMAIN files
    /\ \E id \in Ids : invoked[id] = 1 /\ appended[id] = 0

\* the uncompressed file a .gz artifact was made from
Uncompressed(p) ==
    [p EXCEPT !.ext = IF @ = ".sql.gz" THEN ".sql" ELSE ".sqlite3"]
GzFiles(fs) == {p \in DOMAIN fs : p.ext \in {".sql.gz", ".sqlite3.gz"}}
\* a step in which the harness has called the executor
ExecuteRun == call'.op = "execute" /\ runs' = runs + 1

\* C22: after a successful run with compress = true the returned path is
\* the .gz file, the returned size is that file's size (the file is there
\* whenever retention_count is at least 1) and the uncompressed file is
\* gone; after one with compress = false the returned path is the
\* uncompressed artifact and no .gz file has been written.
C22_CompressReportsGz ==
    [][(ExecuteRun /\ result'.success) =>
          LET p == result'.file_path IN
          IF call.schedule.compress
          THEN /\ p.ext \in {".sql.gz", ".sqlite3.gz"}
               /\ Uncompressed(p) \notin DOMAIN files'
               /\ call.schedule.retention_count >= 1 => p \in DOMAIN files'
               /\ p \in DOMAIN files' =>
                     /\ files'[p].size = result'.file_size
                     /\ files'[p].mtime = now
          ELSE /\ p.ext \in {".sql", ".sqlite3"}
               /\ GzFiles(files') \subseteq GzFiles(files)
               /\ \A q \in GzFiles(files') : files'[q] = files[q]]_vars

\* C22 witness: a run with compress = true has succeeded where an
\* uncompressed artifact of the same second was in the directory; the .gz
\* file is there and the uncompressed one is not.
C22_Witness ==
    /\ runs = 2
    /\ call.op = "execute"
    /\ call.schedule.compress
    /\ result.success
    /\ result.file_path.ext = ".sqlite3.gz"
    /\ result.file_path \in DOMAIN files
    /\ files[result.file_path].size = result.file_size
    /\ Uncompressed(result.file_path) \notin DOMAIN files

\* a step in which the harness has called the retention enforcer
CleanupRun == call'.op = "cleanup" /\ runs' = runs + 1

\* C24: when the deletion of one excess artifact fails during retention
\* enforcement, every other excess artifact is deleted all the same (with
\* 0 <= retention_count = k < N at most k + 1 artifacts are left) and
\* nothing else is touched.
C24_OneFailureOthersDeleted ==
    [][(CleanupRun /\ call'.unlink_fail > 0
          /\ call.schedule.retention_count >= 0) =>
         /\ Cardinality(Matching(files')) <= call.schedule.retention_count + 1
         /\ DOMAIN files \ DOMAIN files' \subseteq Matching(files)]_vars

\* C25: retention enforcement with retention_count <= 0 in which no
\* deletion fails leaves no matching artifact in the directory.
C25_NonPositiveKeepsNone ==
    [][(CleanupRun /\ call'.unlink_fail = 0
          /\ call.schedule.retention_count <= 0) =>
         Matching(files') = {}]_vars

\* C28: whenever the executor returns success, the file at the returned
\* path exists when it returns, whatever the schedule's retention_count:
\* the retention enforcement of a run never deletes the run's own artifact.
C28_ArtifactSurvivesRetention ==
    [][(ExecuteRun /\ result'.success) =>
         result'.file_path \in DOMAIN files']_vars

\* C30: an executor run that returns failure leaves the files of the
\* backup directory exactly as they were before the run.
C30_FailureLeavesDirectory ==
    [][(ExecuteRun /\ ~result'.success) => files' = files]_vars

\* C29: retention enforcement triggered by one schedule never deletes an
\* artifact another schedule produced, also when the two schedules have
\* the same backup_path and different retention_count: the artifact that
\* the run before made for another schedule, in an earlier second, is
\* still there after the run.
C29_OtherSchedulesArtifactsKept ==
    [][(/\ ExecuteRun
        /\ call.op = "execute" /\ result.success
        /\ result.file_path \in DOMAIN files
        /\ call'.schedule.retention_count # call.schedule.retention_count
        /\ timestamp(now) > result.file_path.stamp) =>
          result.file_path \in DOMAIN files']_vars

\* C23: a tick that deactivates an expired schedule appends no history row
\* for it, does not run the executor for it, and leaves every field of its
\* stored row but active as it was: the step that deactivates changes
\* nothing but active, from true to false, and no other step of the tick
\* changes the row.
C23_DeactivationChangesOnlyActive ==
    [][PollStep =>
        /\ \A i \in DOMAIN schedules :
              (Expired(schedules[i]) /\ ~NotStarted(schedules[i])) =>
                  LET id == schedules[i].id IN
                  /\ appended'[id] = appended[id]
                  /\ invoked'[id] = invoked[id]
                  /\ history_of(backup_history', id) = history_of(backup_history, id)
                  /\ Stored(id) =>
                       /\ id \in DOMAIN backup_schedules'
                       /\ \/ backup_schedules'[id] = backup_schedules[id]
                          \/ /\ pc = "deactivate" /\ Current.id = id
                             /\ backup_schedules[id].active
                             /\ backup_schedules'[id] =
                                  [backup_schedules[id] EXCEPT !.active = FALSE]
        /\ pc = "deactivate" =>
              /\ backup_history' = backup_history
              /\ \A id \in DOMAIN backup_schedules \ {Current.id} :
                    /\ id \in DOMAIN backup_schedules'
                    /\ backup_schedules'[id] = backup_schedules[id]]_vars

\* C23 witness: the loop is through an expired schedule that it
\* deactivated; the stored row is the loaded row with active = false, and
\* there is no history row for it
C23_Witness ==
    \E i \in Handled :
        /\ Expired(schedules[i])
        /\ deactivations[schedules[i].id] = 1
        /\ Stored(schedules[i].id)
        /\ backup_schedules[schedules[i].id] = [schedules[i] EXCEPT !.active = FALSE]
        /\ schedules[i].active
        /\ schedules[i].next_backup_date = Past
        /\ history_of(backup_history, schedules[i].id) = << >>
        /\ appended[schedules[i].id] = 0

\* VACUUM INTO fails in a run at this moment: the environment makes it
\* fail, or the file it is to write exists
SnapshotFails == ~call.env.vacuum_ok \/ Path(call.schedule.backup_path, timestamp(now), ".sqlite3") \in DOMAIN files

\* every step of a run but the snapshot and the copy works: the directory,
\* the compression where it is asked for, the reading of the size
RestWorks == call.env.settings_ok /\ call.env.mkdir_ok /\ call.env.stat_ok /\ (call.schedule.compress => (call.env.gzip_ok /\ call.env.unlink_ok))

\* C26: on the SQLite path a run fails and writes no file when the source
\* database file does not exist.  When the file exists, a failure of the
\* snapshot alone does not make the run fail: if the file copy works, and
\* the compression where it is asked for, the run reports success with the
\* .sqlite3 artifact or its .gz; the run fails only if the copy fails too.
C26_SnapshotFailureFallsBack ==
    [][(ExecuteRun /\ ~IsPostgres(call.env.db_url)) =>
         /\ ~call.env.source => (result' = NoResult /\ files' = files)
         /\ (call.env.source /\ SnapshotFails /\ RestWorks) =>
               IF call.env.copy_ok
               THEN /\ result'.success
                    /\ result'.file_path =
                          Path(call.schedule.backup_path, timestamp(now),
                               IF call.schedule.compress THEN ".sqlite3.gz"
                                                         ELSE ".sqlite3")
                    /\ result'.file_size =
                          IF call.schedule.compress THEN gzip_size(call.env.kib)
                                                    ELSE raw_size(call.env.kib)
               ELSE result' = NoResult]_vars

\* C26 witness: VACUUM INTO failed, the copy worked, and the run returned
\* success with the copied file, which carries the source's modification
\* time
C26_Witness ==
    /\ call.op = "execute"
    /\ call.env.source /\ ~call.env.vacuum_ok /\ call.env.copy_ok
    /\ ~call.schedule.compress
    /\ result.success
    /\ result.file_path.ext = ".sqlite3"
    /\ result.file_path \in DOMAIN files
    /\ files[result.file_path].mtime = call.env.source_mtime

\* the status fields of a schedule's row
StatusFields(row) == <<row.last_error, row.last_error_time, row.last_success_time, row.last_backup_path, row.last_backup_size>>

\* the fields of a row that are neither status fields nor next_backup_date
ConfigFields(row) == <<row.id, row.frequency_type, row.start_datetime, row.end_datetime, row.active, row.backup_path, row.retention_count, row.compress>>

\* C27: a request handler (create, update, delete, manual backup) leaves
\* the status fields of every stored row as they are, and a created row
\* has them NULL; a step of the poll task other than the deactivation of
\* an expired schedule changes no field of a row but next_backup_date and
\* the status fields.
C27_StatusFieldsOnlyByEngine ==
    [][/\ \A id \in DOMAIN backup_schedules \cap DOMAIN backup_schedules' :
            /\ ~PollStep =>
                 StatusFields(backup_schedules'[id]) = StatusFields(backup_schedules[id])
            /\ (PollStep /\ pc # "deactivate") =>
                 ConfigFields(backup_schedules'[id]) = ConfigFields(backup_schedules[id])
       /\ \A id \in DOMAIN backup_schedules' \ DOMAIN backup_schedules :
            StatusFields(backup_schedules'[id]) = <<NoText, None, None, NoPath, None>>]_vars

\* C27 witness: a manual backup of a schedule whose last attempt failed was
\* answered with success, and the row still shows the failure; the engine
\* has written the outcome of an attempt to another row, whose
\* configuration is as created
C27_Witness ==
    /\ request.op = "manual" /\ request.http = 200
    /\ Stored(request.id)
    /\ backup_schedules[request.id].last_error = "Backup execution failed"
    /\ backup_schedules[request.id].last_error_time = T0 - 2
    /\ \E id \in DOMAIN backup_schedules \ {request.id} :
          /\ backup_schedules[id].last_success_time >= T0
          /\ backup_schedules[id].next_backup_date > T0
          /\ \E row \in SeedSchedules(id) :
                ConfigFields(backup_schedules[id]) = ConfigFields(row)

InExecutor == {t \in Tasks : loop.at[t] \in ExecutorSteps}

\* C31: at no time are two runs of the executor in progress: at most one
\* task is inside execute_database_backup, and that task holds the event
\* loop, so neither the poll task nor another request handler makes a step
\* until the run has returned.
C31_OneRunAtATime ==
    /\ Cardinality(InExecutor) <= 1
    /\ \A t \in InExecutor : loop.holder = t

\* C31 witness: a manual run is in progress while the poll task is in the
\* middle of a tick, suspended in a database call after a run of its own
C31_Witness ==
    /\ loop.at["manual_1"] \in ExecutorSteps
    /\ loop.at["poll"] \in {"deactivate", "history", "status", "next_date", "handler"}
    /\ loop.at["manual_2"] = "lookup"
    /\ runs = 2

\* when an id joined the session set
JoinedAt(id) == CHOOSE i \in DOMAIN joined : joined[i] = id

\* C32: at every sleep the session set holds at most DeactivatedCap ids,
\* and when the set is trimmed every id that is removed joined the set
\* before every id that stays.
C32_TrimEvictsOldest ==
    [][/\ pc' = "sleep" => Cardinality(deactivated_ids') <= DeactivatedCap
       /\ \A gone \in deactivated_ids \ deactivated_ids' :
             \A kept \in deactivated_ids' : JoinedAt(gone) < JoinedAt(kept)]_vars

=========================================================================
